---- MODULE Spec2Model ----
(***************************************************************************)
(* StreakMate (src/index.tsx): the habit list held by the App component,   *)
(* its copy in AsyncStorage under HABITS_KEY, the wall clock the date      *)
(* predicates read, and the handlers that change them.                     *)
(*                                                                         *)
(* Time is counted in clock ticks; TicksPerDay ticks make one local        *)
(* calendar day.  A string is a sequence of one-character strings, so that *)
(* trim() and toLowerCase() are computed.  An ISO-8601 timestamp is the    *)
(* pair <<day, tick of day>>; null is the empty sequence (both are falsy   *)
(* under `!dateString`).                                                    *)
(***************************************************************************)
EXTENDS Integers, Sequences, FiniteSets, TLC

\* ---------------------------------------------------------------- bounds
TicksPerDay == 2
MaxTime == 5
MaxHabits == 2
MaxStreak == 2

VARIABLES
    habits,      \* useState<Habit[]>: the in-memory collection
    stored,      \* AsyncStorage content under HABITS_KEY
    now,         \* the wall clock, in ticks
    pc,          \* position of initApp ("unmounted" before useEffect fires)
    data,        \* what getItem read for a suspended loadHabits (else Absent)
    loadResult,  \* how the last loadHabits settled, as its caller sees it
    lastOp,      \* history: the last handler that ran
    pre,         \* history: the collection before the last toggle
    dayStart,    \* history: the streak each habit had when the day began
    atStartup,   \* history: identifiers persisted when the app was mounted
    deleted      \* history: identifiers the user deleted since mounting

vars == <<habits, stored, now, pc, data, loadResult, lastOp, pre,
          dayStart, atStartup, deleted>>

\* ------------------------------------------------------------- strings
NULL == <<>>

\* String.prototype.trim on a sequence of characters
RECURSIVE TrimLeft(_)
TrimLeft(s) ==
    IF s # <<>> /\ Head(s) = " " THEN TrimLeft(Tail(s)) ELSE s

RECURSIVE TrimRight(_)
TrimRight(s) ==
    IF s # <<>> /\ s[Len(s)] = " " THEN TrimRight(SubSeq(s, 1, Len(s) - 1))
    ELSE s

Trim(s) == TrimRight(TrimLeft(s))

LowerChar(c) == IF c = "R" THEN "r" ELSE c

ToLowerCase(s) == [i \in 1..Len(s) |-> LowerChar(s[i])]

\* what the user may have typed into the name field
NameInputs ==
    { <<>>, <<" ">>, <<"R">>, <<"r", " ">> }

\* --------------------------------------------------------------- dates
\* Date.prototype.toISOString: an instant as text
ToISOString(t) == << t \div TicksPerDay, t % TicksPerDay >>

\* new Date(dateString): the text back to an instant
ParseDate(iso) == iso[1] * TicksPerDay + iso[2]

\* getFullYear / getMonth / getDate taken together: the local calendar day
CalendarDay(t) == t \div TicksPerDay

isToday(dateString, clock) ==
    IF dateString = NULL THEN FALSE
    ELSE CalendarDay(ParseDate(dateString)) = CalendarDay(clock)

isYesterday(dateString, clock) ==
    IF dateString = NULL THEN FALSE
    ELSE CalendarDay(ParseDate(dateString)) = CalendarDay(clock) - 1

\* ------------------------------------------------------------- storage
Absent == [kind |-> "absent", value |-> <<>>]
Corrupt == [kind |-> "corrupt", value |-> <<>>]

\* JSON.stringify(habitsToSave)
Stringify(hs) == [kind |-> "json", value |-> hs]

\* JSON.parse(data) of text that parses
Parse(text) == text.value

\* `data ? JSON.parse(data) : []` parses (getItem gives null when absent)
Parses(text) == text.kind # "corrupt"

LoadedHabits(text) == IF text.kind = "absent" THEN <<>> ELSE Parse(text)

\* ------------------------------------------------------- streak engine
\* Math.max
Max(a, b) == IF a >= b THEN a ELSE b

\* the reset pass with the yesterday test left out
resetStreaksNotToday(hs, clock) ==
    [i \in 1..Len(hs) |->
        IF hs[i].lastCompleted = NULL THEN hs[i]
        ELSE IF ~isToday(hs[i].lastCompleted, clock)
             THEN [hs[i] EXCEPT !.streak = 0]
             ELSE hs[i]]

resetStreaksIfNeeded(hs, clock) ==
    [i \in 1..Len(hs) |->
        IF hs[i].lastCompleted = NULL THEN hs[i]
        ELSE IF ~isToday(hs[i].lastCompleted, clock)
                /\ ~isYesterday(hs[i].lastCompleted, clock)
             THEN [hs[i] EXCEPT !.streak = 0]
             ELSE hs[i]]

\* toggleHabit with the undo not floored at 0
toggleOneNoFloor(habit, id, clock) ==
    IF habit.id = id
    THEN IF isToday(habit.lastCompleted, clock)
         THEN [habit EXCEPT !.streak = habit.streak - 1,
                            !.lastCompleted = NULL]
         ELSE [habit EXCEPT !.streak = habit.streak + 1,
                            !.lastCompleted = ToISOString(clock)]
    ELSE habit

\* toggleHabit with an undo that clears lastCompleted and keeps the streak
toggleOneUndoKeepsStreak(habit, id, clock) ==
    IF habit.id = id
    THEN IF isToday(habit.lastCompleted, clock)
         THEN [habit EXCEPT !.lastCompleted = NULL]
         ELSE [habit EXCEPT !.streak = habit.streak + 1,
                            !.lastCompleted = ToISOString(clock)]
    ELSE habit

\* toggleHabit with a lapsed streak restarted at the completion
toggleOneRestartsLapsed(habit, id, clock) ==
    IF habit.id = id
    THEN IF isToday(habit.lastCompleted, clock)
         THEN [habit EXCEPT !.streak = Max(0, habit.streak - 1),
                            !.lastCompleted = NULL]
         ELSE IF habit.lastCompleted # NULL
                 /\ ~isYesterday(habit.lastCompleted, clock)
              THEN [habit EXCEPT !.streak = 1,
                                 !.lastCompleted = ToISOString(clock)]
              ELSE [habit EXCEPT !.streak = habit.streak + 1,
                                 !.lastCompleted = ToISOString(clock)]
    ELSE habit

\* the body of the map callback of toggleHabit for one habit
toggleOne(habit, id, clock) ==
    IF habit.id = id
    THEN IF isToday(habit.lastCompleted, clock)
         THEN [habit EXCEPT !.streak = Max(0, habit.streak - 1),
                            !.lastCompleted = NULL]
         ELSE [habit EXCEPT !.streak = habit.streak + 1,
                            !.lastCompleted = ToISOString(clock)]
    ELSE habit

toggled(hs, id, clock) == [i \in 1..Len(hs) |-> toggleOne(hs[i], id, clock)]

\* habits.filter(h => h.id !== id)
RECURSIVE filtered(_, _)
filtered(hs, id) ==
    IF hs = <<>> THEN <<>>
    ELSE IF Head(hs).id # id THEN <<Head(hs)>> \o filtered(Tail(hs), id)
         ELSE filtered(Tail(hs), id)

newHabit(name, clock) ==
    [ id            |-> ToString(clock),
      name          |-> Trim(name),
      streak        |-> 0,
      lastCompleted |-> NULL,
      createdAt     |-> ToISOString(clock) ]

Ids(hs) == { hs[i].id : i \in 1..Len(hs) }

\* --------------------------------------------------------- leaderboard
MOCK_FRIENDS ==
    << [ id |-> "1", name |-> "Alex", isUser |-> FALSE,
         habits |-> [k \in {"workout", "reading"} |->
                        IF k = "workout" THEN 45 ELSE 30] ],
       [ id |-> "2", name |-> "Jordan", isUser |-> FALSE,
         habits |-> [k \in {"workout", "meditation"} |->
                        IF k = "workout" THEN 38 ELSE 22] ],
       [ id |-> "3", name |-> "Sam", isUser |-> FALSE,
         habits |-> [k \in {"reading", "running"} |->
                        IF k = "reading" THEN 50 ELSE 18] ],
       [ id |-> "4", name |-> "Taylor", isUser |-> FALSE,
         habits |-> [k \in {"workout", "reading"} |->
                        IF k = "workout" THEN 28 ELSE 35] ] >>

\* habits.reduce((acc, h) => { acc[h.name.toLowerCase()] = h.streak; ... }, {})
\* a later habit overwrites the entry of an earlier one under the same key
RECURSIVE userHabitMap(_)
userHabitMap(hs) ==
    IF hs = <<>> THEN [k \in {} |-> 0]
    ELSE LET h == hs[Len(hs)]
             acc == userHabitMap(SubSeq(hs, 1, Len(hs) - 1))
             key == ToLowerCase(h.name)
         IN [k \in DOMAIN acc \cup {key} |->
                IF k = key THEN h.streak ELSE acc[k]]

\* Object.values(p.habits).reduce((sum, s) => sum + s, 0)
RECURSIVE sumValues(_)
sumValues(f) ==
    IF DOMAIN f = {} THEN 0
    ELSE LET k == CHOOSE x \in DOMAIN f : TRUE
         IN f[k] + sumValues([x \in DOMAIN f \ {k} |-> f[x]])

withTotal(p) ==
    [ id |-> p.id, name |-> p.name, isUser |-> p.isUser, habits |-> p.habits,
      totalStreak |-> sumValues(p.habits) ]

\* Array.prototype.sort with (a, b) => b.totalStreak - a.totalStreak: stable,
\* descending; insert p after every entry whose total is not smaller
RECURSIVE insertSorted(_, _)
insertSorted(ps, p) ==
    IF ps = <<>> THEN << p >>
    ELSE IF Head(ps).totalStreak >= p.totalStreak
         THEN << Head(ps) >> \o insertSorted(Tail(ps), p)
         ELSE << p >> \o ps

RECURSIVE sortByTotal(_)
sortByTotal(ps) ==
    IF ps = <<>> THEN <<>>
    ELSE insertSorted(sortByTotal(SubSeq(ps, 1, Len(ps) - 1)), ps[Len(ps)])

getLeaderboardData(hs) ==
    LET allData == << [ id |-> "user", name |-> "You", isUser |-> TRUE,
                        habits |-> userHabitMap(hs) ] >> \o MOCK_FRIENDS
        withTotals == [i \in 1..Len(allData) |-> withTotal(allData[i])]
    IN sortByTotal(withTotals)

\* ------------------------------------------------------------ history
\* lastOp names the toggle or the load that ran last, if no other handler
\* has run and the clock has not moved since
NoOp == [op |-> "none", id |-> "", wrote |-> FALSE]
Op(o, i, w) == [op |-> o, id |-> i, wrote |-> w]

\* dayStart[i] is the streak that the i-th habit of the collection in memory
\* had at the first clock reading of the present day: the stored one if the
\* habit was loaded since, 0 if it was added since
StreaksOf(hs) == [i \in 1..Len(hs) |-> hs[i].streak]

StoredStreaks(text) ==
    IF Parses(text) THEN StreaksOf(LoadedHabits(text)) ELSE <<>>

\* the entries of `ss` at the places that habits.filter(h => h.id !== id)
\* keeps of `hs`
RECURSIVE keptPlaces(_, _, _)
keptPlaces(ss, hs, id) ==
    IF hs = <<>> THEN <<>>
    ELSE IF Head(hs).id # id
         THEN <<Head(ss)>> \o keptPlaces(Tail(ss), Tail(hs), id)
         ELSE keptPlaces(Tail(ss), Tail(hs), id)

\* -------------------------------------------------------------- states
\* A habit list left in storage by an earlier session: one habit added and
\* completed at tick 0.
PriorHabit ==
    [ id |-> ToString(0), name |-> <<"R">>, streak |-> 1,
      lastCompleted |-> ToISOString(0), createdAt |-> ToISOString(0) ]

\* A habit list left in storage by an earlier session during which the wall
\* clock of the device (new Date()) was corrected backwards: a habit added at
\* tick 1 and completed while the clock read the first tick of the present
\* day, then found by a load, once the clock had been set back by more than a
\* day, to be neither of today nor of yesterday, reset and written back.
SetBackHabit ==
    [ id |-> ToString(1), name |-> <<"r">>, streak |-> 0,
      lastCompleted |-> ToISOString(TicksPerDay),
      createdAt |-> ToISOString(1) ]

InitialStores ==
    { Absent, Corrupt, Stringify(<< PriorHabit >>),
      Stringify(<< SetBackHabit >>) }

Init ==
    /\ habits = <<>>
    /\ stored \in InitialStores
    /\ now = TicksPerDay
    /\ pc = "unmounted"
    /\ data = Absent
    /\ loadResult = "none"
    /\ lastOp = NoOp
    /\ pre = <<>>
    /\ dayStart = <<>>
    /\ atStartup = {}
    /\ deleted = {}

\* ------------------------------------------------------------- actions
\* AsyncStorage serves its calls in the order they were issued, so a setItem
\* takes effect, and a getItem reads, at the moment of the call; what
\* interleaves with other handlers is the continuation after each await.
\* Storage calls succeed (the catch of saveHabits is not taken).

\* the wall clock advances
Tick ==
    /\ now < MaxTime
    /\ now' = now + 1
    /\ lastOp' = NoOp
    /\ pre' = <<>>
    /\ dayStart' = IF CalendarDay(now + 1) # CalendarDay(now)
                   THEN StreaksOf(habits) ELSE dayStart
    /\ UNCHANGED <<habits, stored, pc, data, loadResult, atStartup, deleted>>

\* loadHabits without the corrective save
loadHabitsNoWriteBack(text, mem, clock) ==
    IF Parses(text)
    THEN [ habits |-> resetStreaksIfNeeded(LoadedHabits(text), clock),
           stored |-> text, wrote |-> FALSE, result |-> "resolved" ]
    ELSE [ habits |-> mem, stored |-> text, wrote |-> FALSE,
           result |-> "resolved_error_logged" ]

\* the outcome of loadHabits run on the stored text `text` at time `clock`
\* with `mem` in memory: the new memory, the new stored text, whether the
\* corrective save ran, and how the returned promise settled
loadHabitsOutcome(text, mem, clock) ==
    IF Parses(text)
    THEN LET loadedHabits == LoadedHabits(text)
             resetHabits == resetStreaksIfNeeded(loadedHabits, clock)
         IN [ habits |-> resetHabits,
              stored |-> IF loadedHabits # resetHabits
                         THEN Stringify(resetHabits) ELSE text,
              wrote  |-> loadedHabits # resetHabits,
              result |-> "resolved" ]
    ELSE [ habits |-> mem, stored |-> text, wrote |-> FALSE,
           result |-> "resolved_error_logged" ]

StartupIds(text) == IF Parses(text) THEN Ids(LoadedHabits(text)) ELSE {}

\* The app is launched (or launched again after being closed) and initApp
\* runs to completion before the user acts: the component mounts with an
\* empty list, then loadHabits reads, resets and writes back.
Launch ==
    /\ pc \in {"unmounted", "done"}
    /\ LET out == loadHabitsOutcome(stored, <<>>, now)
       IN /\ habits' = out.habits
          /\ stored' = out.stored
          /\ loadResult' = out.result
          /\ lastOp' = Op("load", "", out.wrote)
    /\ pc' = "done"
    /\ pre' = <<>>
    /\ dayStart' = IF pc = "unmounted" THEN StoredStreaks(stored)
                   ELSE dayStart
    /\ UNCHANGED <<now, data, atStartup, deleted>>

\* addHabit with `name` typed into the name field
AddHabit(name) ==
    /\ pc # "unmounted"
    /\ Len(habits) < MaxHabits
    /\ IF Trim(name) = <<>>
       THEN UNCHANGED <<habits, stored, dayStart>>
       ELSE LET updated == Append(habits, newHabit(name, now))
            IN /\ habits' = updated
               /\ stored' = Stringify(updated)
               /\ dayStart' = Append(dayStart, 0)
    /\ lastOp' = NoOp
    /\ pre' = <<>>
    /\ UNCHANGED <<now, pc, data, loadResult, atStartup, deleted>>

\* a completion would take a streak past the bound of the model
AtBound(hs, id, clock) ==
    \E i \in 1..Len(hs) :
        /\ hs[i].id = id
        /\ ~isToday(hs[i].lastCompleted, clock)
        /\ hs[i].streak >= MaxStreak

\* toggleHabit(id), pressed on the card of a habit that is shown
ToggleHabit(id) ==
    /\ pc # "unmounted"
    /\ id \in Ids(habits)
    /\ ~AtBound(habits, id, now)
    /\ LET updated == toggled(habits, id, now)
       IN /\ habits' = updated
          /\ stored' = Stringify(updated)
    /\ lastOp' = Op("toggle", id, TRUE)
    /\ pre' = habits
    /\ UNCHANGED <<now, pc, data, loadResult, dayStart, atStartup, deleted>>

\* deleteHabit(id) confirmed in the alert
DeleteHabit(id) ==
    /\ pc # "unmounted"
    /\ id \in Ids(habits)
    /\ LET updated == filtered(habits, id)
       IN /\ habits' = updated
          /\ stored' = Stringify(updated)
    /\ lastOp' = NoOp
    /\ pre' = <<>>
    /\ dayStart' = keptPlaces(dayStart, habits, id)
    /\ deleted' = deleted \cup ({id} \cap atStartup)
    /\ UNCHANGED <<now, pc, data, loadResult, atStartup>>

UserAction ==
    \/ \E name \in NameInputs : AddHabit(name)
    \/ \E id \in Ids(habits) : ToggleHabit(id)
    \/ \E id \in Ids(habits) : DeleteHabit(id)

\* Handlers run one after another, each to completion.
Next ==
    \/ Tick
    \/ Launch
    \/ UserAction

Spec == Init /\ [][Next]_vars

\* ------------------------------------------------- startup, step by step
\* useEffect fires initApp, which suspends at each await while the home
\* screen, already rendered with the empty list, takes user actions.
Mount ==
    /\ pc = "unmounted"
    /\ pc' = "permission"
    /\ atStartup' = StartupIds(stored)
    /\ deleted' = {}
    /\ UNCHANGED <<habits, stored, now, data, loadResult, lastOp, pre,
                   dayStart>>

\* setupNotifications resumes after requestPermissionsAsync: without the
\* permission (or on a rejection, which its catch logs) it returns, initApp
\* resumes and loadHabits issues its getItem
PermissionResult(granted) ==
    /\ pc = "permission"
    /\ IF granted
       THEN pc' = "cancel" /\ UNCHANGED data
       ELSE pc' = "getItem" /\ data' = stored
    /\ UNCHANGED <<habits, stored, now, loadResult, lastOp, pre,
                   dayStart, atStartup, deleted>>

\* setupNotifications resumes after cancelAllScheduledNotificationsAsync
CancelDone ==
    /\ pc = "cancel"
    /\ pc' = "schedule"
    /\ UNCHANGED <<habits, stored, now, data, loadResult, lastOp, pre,
                   dayStart, atStartup, deleted>>

\* setupNotifications resumes after scheduleNotificationAsync and returns;
\* initApp resumes and loadHabits issues its getItem
ScheduleDone ==
    /\ pc = "schedule"
    /\ pc' = "getItem"
    /\ data' = stored
    /\ UNCHANGED <<habits, stored, now, loadResult, lastOp, pre,
                   dayStart, atStartup, deleted>>

\* loadHabits resumes with the text getItem read
LoadResume ==
    /\ pc = "getItem"
    /\ LET out == loadHabitsOutcome(data, habits, now)
       IN /\ habits' = out.habits
          /\ stored' = IF out.wrote THEN out.stored ELSE stored
          /\ loadResult' = out.result
          /\ lastOp' = Op("load", "", out.wrote)
          /\ pc' = IF out.wrote THEN "setItem" ELSE "done"
    /\ data' = Absent
    /\ pre' = <<>>
    /\ dayStart' = IF Parses(data) THEN StoredStreaks(data) ELSE dayStart
    /\ UNCHANGED <<now, atStartup, deleted>>

\* loadHabits resumes after its corrective saveHabits and returns
SaveDone ==
    /\ pc = "setItem"
    /\ pc' = "done"
    /\ UNCHANGED <<habits, stored, now, data, loadResult, lastOp, pre,
                   dayStart, atStartup, deleted>>

NextAsync ==
    \/ Tick
    \/ Mount
    \/ \E granted \in BOOLEAN : PermissionResult(granted)
    \/ CancelDone
    \/ ScheduleDone
    \/ LoadResume
    \/ SaveDone
    \/ UserAction

SpecAsync == Init /\ [][NextAsync]_vars

\* ============================================================== claims
Stale(dateString, clock) ==
    ~isToday(dateString, clock) /\ ~isYesterday(dateString, clock)

\* C1: a habit toggled twice in immediate succession, with no day boundary
\* crossed in between, has the streak and the lastCompleted it had before
\* the first toggle.
C1_ToggleTwiceRestores ==
    [][ ( /\ lastOp.op = "toggle"
          /\ lastOp'.op = "toggle"
          /\ lastOp'.id = lastOp.id )
        => \A i \in 1..Len(pre) :
              /\ habits'[i].streak = pre[i].streak
              /\ habits'[i].lastCompleted = pre[i].lastCompleted ]_vars

\* C2: immediately after a load completes, every habit whose lastCompleted
\* is neither today nor yesterday (a cleared lastCompleted included) has
\* streak 0.
C2_StaleStreakZeroAfterLoad ==
    (lastOp.op = "load" /\ loadResult = "resolved")
    => \A i \in 1..Len(habits) :
          Stale(habits[i].lastCompleted, now) => habits[i].streak = 0

\* C3: the reset pass keeps length and order; a habit whose lastCompleted is
\* set and is neither today nor yesterday gets streak 0 and keeps its other
\* fields; every other habit is returned as it was; the input is left as it
\* was read, so that the load sees the difference and writes it back.
C3_LapseReset ==
    [][ (lastOp'.op = "load" /\ Parses(stored))
        => LET input == LoadedHabits(stored)
           IN /\ Len(habits') = Len(input)
              /\ \A i \in 1..Len(input) :
                    IF input[i].lastCompleted # NULL
                       /\ Stale(input[i].lastCompleted, now)
                    THEN /\ habits'[i].streak = 0
                         /\ habits'[i].id = input[i].id
                         /\ habits'[i].name = input[i].name
                         /\ habits'[i].lastCompleted = input[i].lastCompleted
                         /\ habits'[i].createdAt = input[i].createdAt
                    ELSE habits'[i] = input[i]
              /\ lastOp'.wrote = (habits' # input)
              /\ lastOp'.wrote => stored' = Stringify(habits') ]_vars

\* a load has just reset one habit's streak and left another one's alone
C3_Witness ==
    /\ lastOp.op = "load"
    /\ lastOp.wrote
    /\ \E i, j \in 1..Len(habits) :
          /\ habits[i].streak = 0
          /\ habits[i].lastCompleted # NULL
          /\ Stale(habits[i].lastCompleted, now)
          /\ habits[j].streak > 0
          /\ isYesterday(habits[j].lastCompleted, now)

\* C4: a load of content that does not parse fails towards its caller with
\* a PersistenceError, and leaves the stored content in place.
C4_ParseFailurePropagates ==
    (lastOp.op = "load" /\ ~Parses(stored))
    => loadResult = "rejected_PersistenceError"

\* C5: the leaderboard has exactly one entry flagged as the user, and its
\* total is the sum of the streaks of all current habits.
RECURSIVE sumStreaks(_)
sumStreaks(hs) ==
    IF hs = <<>> THEN 0 ELSE Head(hs).streak + sumStreaks(Tail(hs))

C5_UserTotalIsSumOfStreaks ==
    LET board == getLeaderboardData(habits)
    IN /\ Cardinality({i \in 1..Len(board) : board[i].isUser}) = 1
       /\ \A i \in 1..Len(board) :
             board[i].isUser => board[i].totalStreak = sumStreaks(habits)

\* the outcome of saving the collection in memory and loading again at
\* clock reading t
saveThenLoad(t) == loadHabitsOutcome(Stringify(habits), habits, t)

\* the clock readings from now on that fall on the present calendar day
RestOfToday == { t \in now..MaxTime : CalendarDay(t) = CalendarDay(now) }

\* C6 as stated: after a load, saving the loaded collection and loading
\* again on the same calendar day leaves the stored content identical to
\* what it was after the first load, and the second load writes nothing back
\* (stated here for the loads that parsed what they read).
C6_SaveLoadKeepsStoredContent ==
    (lastOp.op = "load" /\ loadResult = "resolved")
    => \A t \in RestOfToday :
          /\ saveThenLoad(t).stored = stored
          /\ ~saveThenLoad(t).wrote

\* C6 as amended: after a load, saving the collection in memory and loading
\* again on the same calendar day leaves in storage the serialisation of
\* that collection, which is the content the first load left whenever that
\* load found a stored list; the second load writes nothing back and returns
\* the same collection.
C6_SaveLoadIdempotent ==
    lastOp.op = "load"
    => \A t \in RestOfToday :
          /\ saveThenLoad(t).stored = Stringify(habits)
          /\ stored.kind = "json" => saveThenLoad(t).stored = stored
          /\ ~saveThenLoad(t).wrote
          /\ saveThenLoad(t).habits = habits

\* a load has just reset a streak and written the result back
C6_Witness ==
    /\ lastOp.op = "load"
    /\ lastOp.wrote
    /\ stored = Stringify(habits)
    /\ now + 1 \in RestOfToday
    /\ \E i \in 1..Len(habits) :
          /\ habits[i].streak = 0
          /\ habits[i].lastCompleted # NULL

\* C7: every habit in memory and in storage has streak >= 0, and an undo on
\* a habit with streak 0 leaves the streak at 0.
C7_StreakNeverNegative ==
    /\ \A i \in 1..Len(habits) : habits[i].streak >= 0
    /\ stored.kind = "json"
       => \A i \in 1..Len(stored.value) : stored.value[i].streak >= 0
    /\ lastOp.op = "toggle"
       => \A i \in 1..Len(pre) :
             ( /\ pre[i].id = lastOp.id
               /\ isToday(pre[i].lastCompleted, now)
               /\ pre[i].streak = 0 )
             => habits[i].streak = 0

\* an undo has just run on a habit whose streak was 0
C7_Witness ==
    /\ lastOp.op = "toggle"
    /\ \E i \in 1..Len(pre) :
          /\ pre[i].id = lastOp.id
          /\ isToday(pre[i].lastCompleted, now)
          /\ pre[i].streak = 0
          /\ habits[i].streak = 0
          /\ habits[i].lastCompleted = NULL
          /\ stored = Stringify(habits)

\* C8: the habits of the collection have pairwise distinct identifiers.
C8_IdentifiersDistinct ==
    \A i, j \in 1..Len(habits) : i # j => habits[i].id # habits[j].id

\* C9: toggleHabit(id) changes the habits with that id and no other: a habit
\* completed today gets streak max(0, streak - 1) and lastCompleted null;
\* any other (never completed, completed yesterday, or completed two or more
\* days ago) gets streak + 1 and lastCompleted = now, without any reset.
C9_ToggleTransitions ==
    [][ lastOp'.op = "toggle"
        => /\ Len(habits') = Len(habits)
           /\ \A i \in 1..Len(habits) :
                 IF habits[i].id = lastOp'.id
                 THEN /\ habits'[i].id = habits[i].id
                      /\ habits'[i].name = habits[i].name
                      /\ habits'[i].createdAt = habits[i].createdAt
                      /\ IF habits[i].lastCompleted # NULL
                            /\ CalendarDay(ParseDate(habits[i].lastCompleted))
                               = CalendarDay(now)
                         THEN /\ habits'[i].streak
                                 = (IF habits[i].streak >= 1
                                    THEN habits[i].streak - 1 ELSE 0)
                              /\ habits'[i].lastCompleted = NULL
                         ELSE /\ habits'[i].streak = habits[i].streak + 1
                              /\ ParseDate(habits'[i].lastCompleted) = now
                 ELSE habits'[i] = habits[i] ]_vars

\* a toggle has just completed a habit last completed two or more days ago
\* whose streak no reset pass had cleared, beside a habit it left alone
C9_Witness ==
    /\ lastOp.op = "toggle"
    /\ \E i, j \in 1..Len(pre) :
          /\ pre[i].id = lastOp.id
          /\ pre[i].lastCompleted # NULL
          /\ Stale(pre[i].lastCompleted, now)
          /\ pre[i].streak >= 1
          /\ habits[i].streak = pre[i].streak + 1
          /\ pre[j].id # lastOp.id
          /\ habits[j] = pre[j]

\* C10: once no operation is in flight after startup, the persisted
\* collection equals the collection in memory, and every habit that was
\* persisted at startup is still there unless the user deleted it.
C10_StartupKeepsHabits ==
    (pc = "done" /\ Parses(stored))
    => /\ LoadedHabits(stored) = habits
       /\ \A id \in atStartup \ deleted : id \in Ids(habits)

\* C11: with a clock that never goes back, across toggles (completions and
\* undos), loads and day advances, the streak of a habit is at any moment of
\* a calendar day at most one above the streak it had when that day began.
C11_AtMostOneMorePerDay ==
    /\ Len(dayStart) = Len(habits)
    /\ \A i \in 1..Len(habits) : habits[i].streak <= dayStart[i] + 1

\* a habit that began the day with a streak of at least 1 has been
\* completed today and the completion has just been undone: the next toggle
\* completes it again on the same day
C11_Witness ==
    /\ lastOp.op = "toggle"
    /\ \E i \in 1..Len(pre) :
          /\ pre[i].id = lastOp.id
          /\ dayStart[i] >= 1
          /\ isToday(pre[i].lastCompleted, now)
          /\ pre[i].streak = dayStart[i] + 1
          /\ habits[i].streak = dayStart[i]
          /\ habits[i].lastCompleted = NULL
          /\ ~AtBound(habits, lastOp.id, now)

====
